---- MODULE Spec2Model ----
(***************************************************************************)
(* Console todo application (PhaseI): the in-memory Task Store             *)
(* (app/services/task_service.py, app/models/task.py), the command parser  *)
(* (enhanced_cli/command_parser.py), the command loop                      *)
(* (app/cli/cli_interface.py) and the session's command history            *)
(* (enhanced_cli/interactive_session.py).                                  *)
(*                                                                         *)
(* Strings are sequences of one-character strings, so that strip, lower,   *)
(* join and the tokenizer are computed character by character.             *)
(***************************************************************************)
EXTENDS Integers, Sequences, FiniteSets, TLC

VARIABLES
    tasks,      \* TaskService.tasks: the ordered list of Task objects
    next_id,    \* TaskService.next_id
    last,       \* the last Task Store call and what it returned or raised
    assigned,   \* history: ids of the tasks returned by successful adds, in order
    deleted,    \* history: ids whose delete_task returned True
    running,    \* CLIInterface.running
    pc,         \* position of CLIInterface.run: "prompt", "confirm", "stopped", "crashed"
    pending,    \* handle_delete's local task_id while it waits for the answer
    input,      \* the last thing read from standard input
    output,     \* what the last step printed
    parsed,     \* what EnhancedCommandParser.parse_command returned or raised
    command_history,  \* InteractiveSession.command_history
    history_calls     \* history: the number of add_command_to_history calls

vars == <<tasks, next_id, last, assigned, deleted, running, pc, pending, input, output,
          parsed, command_history, history_calls>>

storeVars == <<tasks, next_id, last, assigned, deleted>>
cliVars == <<running, pc, pending, input, output>>
parserVars == <<parsed>>
historyVars == <<command_history, history_calls>>

\* Successful adds are allowed while next_id <= MaxId.
MaxId == 3

(***************************************************************************)
(* Characters and the string methods the program uses                      *)
(***************************************************************************)
\* str.strip() with no argument removes whitespace
Whitespace == {" ", "\t"}

RECURSIVE lstrip(_)
lstrip(s) == IF s = <<>> THEN s
             ELSE IF Head(s) \in Whitespace THEN lstrip(Tail(s)) ELSE s

RECURSIVE rstrip(_)
rstrip(s) == IF s = <<>> THEN s
             ELSE IF s[Len(s)] \in Whitespace THEN rstrip(SubSeq(s, 1, Len(s) - 1)) ELSE s

strip(s) == rstrip(lstrip(s))

(***************************************************************************)
(* Task (app/models/task.py)                                               *)
(***************************************************************************)
\* messages of the ValueErrors; NoError: nothing was raised
NoError == ""
EmptyTitle == "Task title cannot be empty"
BadTaskId == "Task ID must be a positive integer"
BadTaskTitle == "Task title must be a non-empty string"

\* Task.__init__: raises ValueError for a non-positive id or a blank title,
\* otherwise stores the id, the stripped title and completed = False.
Task(task_id, title) ==
    IF task_id <= 0
    THEN [raised |-> BadTaskId, task |-> <<>>]
    ELSE IF strip(title) = <<>>
    THEN [raised |-> BadTaskTitle, task |-> <<>>]
    ELSE [raised |-> NoError,
          task |-> <<[id |-> task_id, title |-> strip(title), completed |-> FALSE]>>]

(***************************************************************************)
(* TaskService (app/services/task_service.py)                              *)
(* self is [tasks, next_id]; every method yields the store after the call, *)
(* whether it raised ValueError, the returned Task (<<>> for None) and the *)
(* truth value of what it returned.                                        *)
(***************************************************************************)
Result(ts, nid, raised, ok, ret) ==
    [tasks |-> ts, next_id |-> nid, raised |-> raised, ok |-> ok, ret |-> ret]

first_index_as_position(self, task_id) ==
    IF task_id >= 1 /\ task_id <= Len(self.tasks) THEN task_id ELSE 0

\* index of the first task with this id, 0 when there is none
first_index(self, task_id) ==
    LET hits == {i \in 1..Len(self.tasks) : self.tasks[i].id = task_id}
    IN IF hits = {} THEN 0 ELSE CHOOSE i \in hits : \A j \in hits : i <= j

get_task_by_id(self, task_id) ==
    LET i == first_index(self, task_id)
    IN IF i = 0 THEN <<>> ELSE <<self.tasks[i]>>

add_task_reuse(self, title) ==
    IF title = <<>> \/ strip(title) = <<>>
    THEN Result(self.tasks, self.next_id, EmptyTitle, FALSE, <<>>)
    ELSE LET t == Task(Len(self.tasks) + 1, strip(title))
         IN Result(Append(self.tasks, t.task[1]), self.next_id + 1, NoError, TRUE, t.task)

add_task_count_first(self, title) ==
    IF title = <<>> \/ strip(title) = <<>>
    THEN Result(self.tasks, self.next_id + 1, EmptyTitle, FALSE, <<>>)
    ELSE LET t == Task(self.next_id, strip(title))
         IN Result(Append(self.tasks, t.task[1]), self.next_id + 1, NoError, TRUE, t.task)

add_task_prepend(self, title) ==
    IF title = <<>> \/ strip(title) = <<>>
    THEN Result(self.tasks, self.next_id, EmptyTitle, FALSE, <<>>)
    ELSE LET t == Task(self.next_id, strip(title))
         IN Result(<<t.task[1]>> \o self.tasks, self.next_id + 1, NoError, TRUE, t.task)

add_task(self, title) ==
    IF title = <<>> \/ strip(title) = <<>>
    THEN Result(self.tasks, self.next_id, EmptyTitle, FALSE, <<>>)
    ELSE LET t == Task(self.next_id, strip(title))
         IN IF t.raised # NoError
            THEN Result(self.tasks, self.next_id, t.raised, FALSE, <<>>)
            ELSE Result(Append(self.tasks, t.task[1]), self.next_id + 1, NoError, TRUE, t.task)

update_task_nostrip(self, task_id, new_title) ==
    IF new_title = <<>> \/ strip(new_title) = <<>>
    THEN Result(self.tasks, self.next_id, EmptyTitle, FALSE, <<>>)
    ELSE LET i == first_index(self, task_id)
         IN IF i = 0
            THEN Result(self.tasks, self.next_id, NoError, FALSE, <<>>)
            ELSE LET ts == [self.tasks EXCEPT ![i].title = new_title]
                 IN Result(ts, self.next_id, NoError, TRUE, <<ts[i]>>)

update_task(self, task_id, new_title) ==
    IF new_title = <<>> \/ strip(new_title) = <<>>
    THEN Result(self.tasks, self.next_id, EmptyTitle, FALSE, <<>>)
    ELSE LET i == first_index(self, task_id)
         IN IF i = 0
            THEN Result(self.tasks, self.next_id, NoError, FALSE, <<>>)
            ELSE LET ts == [self.tasks EXCEPT ![i].title = strip(new_title)]
                 IN Result(ts, self.next_id, NoError, TRUE, <<ts[i]>>)

\* list.remove(x): the list without its element at position i
remove_at(ts, i) == SubSeq(ts, 1, i - 1) \o SubSeq(ts, i + 1, Len(ts))

delete_task_by_position(self, task_id) ==
    IF task_id >= 1 /\ task_id <= Len(self.tasks)
    THEN Result(remove_at(self.tasks, task_id), self.next_id, NoError, TRUE, <<>>)
    ELSE Result(self.tasks, self.next_id, NoError, FALSE, <<>>)

delete_task_rewind(self, task_id) ==
    LET i == first_index(self, task_id)
    IN IF i = 0
       THEN Result(self.tasks, self.next_id, NoError, FALSE, <<>>)
       ELSE Result(remove_at(self.tasks, i), self.next_id - 1, NoError, TRUE, <<>>)

delete_task(self, task_id) ==
    LET i == first_index(self, task_id)
    IN IF i = 0
       THEN Result(self.tasks, self.next_id, NoError, FALSE, <<>>)
       ELSE Result(remove_at(self.tasks, i), self.next_id, NoError, TRUE, <<>>)

complete_task_toggle(self, task_id) ==
    LET i == first_index(self, task_id)
    IN IF i = 0
       THEN Result(self.tasks, self.next_id, NoError, FALSE, <<>>)
       ELSE Result([self.tasks EXCEPT ![i].completed = ~self.tasks[i].completed],
                   self.next_id, NoError, TRUE, <<>>)

complete_task(self, task_id) ==
    LET i == first_index(self, task_id)
    IN IF i = 0
       THEN Result(self.tasks, self.next_id, NoError, FALSE, <<>>)
       ELSE Result([self.tasks EXCEPT ![i].completed = TRUE],
                   self.next_id, NoError, TRUE, <<>>)

incomplete_task(self, task_id) ==
    LET i == first_index(self, task_id)
    IN IF i = 0
       THEN Result(self.tasks, self.next_id, NoError, FALSE, <<>>)
       ELSE Result([self.tasks EXCEPT ![i].completed = FALSE],
                   self.next_id, NoError, TRUE, <<>>)

\* TaskService.__init__
TaskService == [tasks |-> <<>>, next_id |-> 1]

\* the store as the methods see it
Self == [tasks |-> tasks, next_id |-> next_id]

(***************************************************************************)
(* Calls of the Task Store                                                 *)
(***************************************************************************)
NoCall == [op |-> "none", id |-> 0, title |-> <<>>, raised |-> NoError,
           ok |-> FALSE, ret |-> <<>>]

\* One call of a TaskService method with result r: the store becomes what the
\* method left, and the call is recorded.
Call(op, task_id, title, r) ==
    /\ tasks' = r.tasks
    /\ next_id' = r.next_id
    /\ last' = [op |-> op, id |-> task_id, title |-> title, raised |-> r.raised,
                ok |-> r.ok, ret |-> r.ret]
    /\ assigned' = IF op = "add" /\ r.raised = NoError
                   THEN Append(assigned, r.ret[1].id) ELSE assigned
    /\ deleted' = IF op = "delete" /\ r.ok THEN deleted \cup {task_id} ELSE deleted

\* Titles passed to add_task and update_task: empty, whitespace only, plain,
\* padded with whitespace, with an inner space.
Titles == { <<>>, <<" ">>, <<"\t", " ">>,
            <<"a">>, <<" ", "a", "\t">>,
            <<"a", " ", "b">>, <<" ", "a", " ", "b", " ">> }

\* Ids passed to the lookups and mutators: every id that can have been
\* assigned, and one that never is.
CallIds == 1..(MaxId + 1)

AddTask ==
    \E title \in Titles :
        /\ next_id <= MaxId
        /\ Call("add", 0, title, add_task(Self, title))
        /\ UNCHANGED <<cliVars, parserVars, historyVars>>

GetTaskById ==
    \E task_id \in CallIds :
        LET t == get_task_by_id(Self, task_id)
        IN /\ Call("get", task_id, <<>>, Result(tasks, next_id, NoError, t # <<>>, t))
           /\ UNCHANGED <<cliVars, parserVars, historyVars>>

UpdateTask ==
    \E task_id \in CallIds, new_title \in Titles :
        /\ Call("update", task_id, new_title, update_task(Self, task_id, new_title))
        /\ UNCHANGED <<cliVars, parserVars, historyVars>>

DeleteTask ==
    \E task_id \in CallIds :
        /\ Call("delete", task_id, <<>>, delete_task(Self, task_id))
        /\ UNCHANGED <<cliVars, parserVars, historyVars>>

CompleteTask ==
    \E task_id \in CallIds :
        /\ Call("complete", task_id, <<>>, complete_task(Self, task_id))
        /\ UNCHANGED <<cliVars, parserVars, historyVars>>

IncompleteTask ==
    \E task_id \in CallIds :
        /\ Call("incomplete", task_id, <<>>, incomplete_task(Self, task_id))
        /\ UNCHANGED <<cliVars, parserVars, historyVars>>

(***************************************************************************)
(* More string methods: lower, join, startswith, count, int                *)
(***************************************************************************)
UpperCase == <<"A", "B", "C", "D", "E", "F", "G", "H", "I", "J", "K", "L", "M",
               "N", "O", "P", "Q", "R", "S", "T", "U", "V", "W", "X", "Y", "Z">>
LowerCase == <<"a", "b", "c", "d", "e", "f", "g", "h", "i", "j", "k", "l", "m",
               "n", "o", "p", "q", "r", "s", "t", "u", "v", "w", "x", "y", "z">>

lower_char(c) ==
    IF \E i \in DOMAIN UpperCase : UpperCase[i] = c
    THEN LowerCase[CHOOSE i \in DOMAIN UpperCase : UpperCase[i] = c]
    ELSE c

\* str.lower()
RECURSIVE lower(_)
lower(s) == IF s = <<>> THEN <<>> ELSE <<lower_char(Head(s))>> \o lower(Tail(s))

\* " ".join(parts)
RECURSIVE join(_)
join(parts) ==
    IF parts = <<>> THEN <<>>
    ELSE IF Len(parts) = 1 THEN parts[1]
    ELSE parts[1] \o <<" ">> \o join(Tail(parts))

\* s.startswith(prefix)
startswith(s, prefix) ==
    Len(prefix) <= Len(s) /\ SubSeq(s, 1, Len(prefix)) = prefix

\* s.count(c) for a single character c
count(s, c) == Cardinality({i \in 1..Len(s) : s[i] = c})

Digits == <<"0", "1", "2", "3", "4", "5", "6", "7", "8", "9">>
IsDigit(c) == \E i \in DOMAIN Digits : Digits[i] = c
DigitValue(c) == (CHOOSE i \in DOMAIN Digits : Digits[i] = c) - 1

RECURSIVE digits_value(_)
digits_value(s) ==
    IF s = <<>> THEN 0
    ELSE IF s[Len(s)] = "_" THEN digits_value(SubSeq(s, 1, Len(s) - 1))
    ELSE 10 * digits_value(SubSeq(s, 1, Len(s) - 1)) + DigitValue(s[Len(s)])

\* int(s): surrounding whitespace and one sign are accepted, then decimal
\* digits, single underscores allowed between digits; anything else raises
\* ValueError.
int(s) ==
    LET t == strip(s)
        signed == t # <<>> /\ t[1] \in {"+", "-"}
        body == IF signed THEN Tail(t) ELSE t
        wellformed ==
            /\ body # <<>>
            /\ \A i \in 1..Len(body) : IsDigit(body[i]) \/ body[i] = "_"
            /\ IsDigit(body[1]) /\ IsDigit(body[Len(body)])
            /\ \A i \in 1..(Len(body) - 1) : ~(body[i] = "_" /\ body[i + 1] = "_")
    IN IF ~wellformed THEN [raised |-> TRUE, value |-> 0]
       ELSE [raised |-> FALSE,
             value |-> IF signed /\ t[1] = "-" THEN 0 - digits_value(body)
                       ELSE digits_value(body)]

(***************************************************************************)
(* EnhancedCommandParser (enhanced_cli/command_parser.py)                  *)
(***************************************************************************)
add == <<"a", "d", "d">>
list == <<"l", "i", "s", "t">>
ls == <<"l", "s">>
update == <<"u", "p", "d", "a", "t", "e">>
delete == <<"d", "e", "l", "e", "t", "e">>
complete == <<"c", "o", "m", "p", "l", "e", "t", "e">>
done == <<"d", "o", "n", "e">>
incomplete == <<"i", "n">> \o complete
undo == <<"u", "n", "d", "o">>
help == <<"h", "e", "l", "p">>
qmark == <<"?">>
exit == <<"e", "x", "i", "t">>
quit == <<"q", "u", "i", "t">>

\* self.valid_commands: canonical name and its aliases, in dict order
valid_commands ==
    << <<add, <<add>> >>,
       <<list, <<list, ls>> >>,
       <<update, <<update>> >>,
       <<delete, <<delete>> >>,
       <<complete, <<complete, done>> >>,
       <<incomplete, <<incomplete, undo>> >>,
       <<help, <<help, qmark>> >>,
       <<exit, <<exit, quit>> >> >>

RECURSIVE flatten(_)
flatten(table) ==
    IF table = <<>> THEN <<>> ELSE Head(table)[2] \o flatten(Tail(table))

\* self.all_commands
all_commands == flatten(valid_commands)

\* re.finditer(r'"([^"]*)"|\'([^\']*)\'|(\S+)', s) from position pos on: the
\* matches in order, each with the group that took part (1 and 2: the text
\* between a quote and the next same quote; 3: a run of non-whitespace).
RECURSIVE finditer(_, _)
finditer(s, pos) ==
    IF pos > Len(s) THEN <<>>
    ELSE LET c == s[pos]
             closing == {j \in (pos + 1)..Len(s) : s[j] = c}
             close == CHOOSE j \in closing : \A k \in closing : j <= k
             stops == {j \in pos..Len(s) : s[j] \in Whitespace}
             stop == IF stops = {} THEN Len(s) + 1
                     ELSE CHOOSE j \in stops : \A k \in stops : j <= k
         IN IF c \in {"\"", "'"} /\ closing # {}
            THEN <<[group |-> IF c = "\"" THEN 1 ELSE 2,
                    text |-> SubSeq(s, pos + 1, close - 1)]>>
                 \o finditer(s, close + 1)
            ELSE IF c \notin Whitespace
            THEN <<[group |-> 3, text |-> SubSeq(s, pos, stop - 1)]>>
                 \o finditer(s, stop)
            ELSE finditer(s, pos + 1)

\* a suggestion line: a fixed text, and the command it names if it names one
Suggestion(text, cmd) == [text |-> text, cmd |-> cmd]

TryHelp == Suggestion("Try typing 'help' for available commands", <<>>)
DidYouMean(cmd) == Suggestion("Did you mean '<cmd>'?", cmd)
AvailableCommands ==
    Suggestion("Available commands: add, list, update, delete, complete, incomplete, help, exit", <<>>)
TypeHelp == Suggestion("Type 'help' for a comprehensive list of commands", <<>>)

\* _similarity: 2 * common_chars / total_chars as the fraction <<num, den>>;
\* 1.0 when both strings are empty
similarity(str1, str2) ==
    LET a == lower(str1)
        b == lower(str2)
        chars == {a[i] : i \in 1..Len(a)} \cup {b[i] : i \in 1..Len(b)}
        common_chars ==
            Cardinality({p \in chars \X (1..(Len(a) + Len(b))) :
                            p[2] <= count(a, p[1]) /\ p[2] <= count(b, p[1])})
        total_chars == Len(a) + Len(b)
    IN IF total_chars = 0 THEN <<1, 1>> ELSE <<2 * common_chars, total_chars>>

above_threshold_inclusive(ratio) == 10 * ratio[1] >= 6 * ratio[2]

\* ratio > 0.6 for a fraction <<num, den>>
above_threshold(ratio) == 10 * ratio[1] > 6 * ratio[2]

RECURSIVE suggest_from(_, _)
suggest_from(invalid_command, cmds) ==
    IF cmds = <<>> THEN <<>>
    ELSE LET valid_cmd == Head(cmds)
             rest == suggest_from(invalid_command, Tail(cmds))
         IN IF startswith(valid_cmd, invalid_command) /\ invalid_command # valid_cmd
            THEN <<DidYouMean(valid_cmd)>> \o rest
            ELSE IF above_threshold(similarity(invalid_command, valid_cmd))
            THEN <<DidYouMean(valid_cmd)>> \o rest
            ELSE rest

\* _get_command_suggestions
get_command_suggestions(invalid_command) ==
    LET suggestions == suggest_from(invalid_command, all_commands)
    IN IF suggestions = <<>> THEN <<AvailableCommands, TypeHelp>> ELSE suggestions

StopIteration == "StopIteration"

Parsed(command, args, is_valid, suggestions, raised) ==
    [command |-> command, args |-> args, is_valid |-> is_valid,
     suggestions |-> suggestions, raised |-> raised]

\* EnhancedCommandParser.parse_command. next(filter(None, match.groups()))
\* raises StopIteration for a match whose group is the empty string, which
\* is what a pair of quotes with nothing between them produces.
parse_command(user_input) ==
    LET stripped == strip(user_input)
        matches == finditer(stripped, 1)
        parts == [i \in 1..Len(matches) |-> matches[i].text]
        command == lower(parts[1])
        args == Tail(parts)
        is_valid == \E i \in 1..Len(valid_commands) :
                        \E j \in 1..Len(valid_commands[i][2]) :
                            valid_commands[i][2][j] = command
    IN IF stripped = <<>>
       THEN Parsed(<<>>, <<>>, FALSE, <<TryHelp>>, NoError)
       ELSE IF \E i \in 1..Len(matches) : matches[i].text = <<>>
       THEN Parsed(<<>>, <<>>, FALSE, <<>>, StopIteration)
       ELSE IF parts = <<>>
       THEN Parsed(<<>>, <<>>, FALSE, <<TryHelp>>, NoError)
       ELSE Parsed(command, args, is_valid,
                   IF is_valid THEN <<>> ELSE get_command_suggestions(command),
                   NoError)

UsageAdd == Suggestion("Provide a task title in quotes: add \"task title\"", <<>>)
UsageUpdate == Suggestion("Provide task ID and new title: update <id> \"new title\"", <<>>)
UsageDelete == Suggestion("Provide task ID: delete <id>", <<>>)
UsageComplete == Suggestion("Provide task ID: complete <id>", <<>>)
UsageIncomplete == Suggestion("Provide task ID: incomplete <id>", <<>>)
UsageList == Suggestion("No additional arguments needed: list", <<>>)
UsageHelp == Suggestion("No additional arguments needed: help", <<>>)
UsageExit == Suggestion("No additional arguments needed: exit", <<>>)

\* the expected_args dict of validate_command_args
expected_args ==
    << <<add, 1, UsageAdd>>,
       <<update, 2, UsageUpdate>>,
       <<delete, 1, UsageDelete>>,
       <<complete, 1, UsageComplete>>,
       <<incomplete, 1, UsageIncomplete>>,
       <<list, 0, UsageList>>,
       <<help, 0, UsageHelp>>,
       <<exit, 0, UsageExit>> >>

\* EnhancedCommandParser.validate_command_args: <<is_valid, error_message>>
validate_command_args(command, args) ==
    LET keys == {i \in 1..Len(expected_args) : expected_args[i][1] = command}
        entry == expected_args[CHOOSE i \in keys : TRUE]
    IN IF keys # {} /\ Len(args) # entry[2]
       THEN <<FALSE, <<entry[3]>> >>
       ELSE <<TRUE, <<>> >>

(***************************************************************************)
(* Display formatters (enhanced_cli/display_formatters.py) and the printed *)
(* lines. A printed line is its fixed text with the values put into it.    *)
(***************************************************************************)
Msg(text, task_id, arg, items) ==
    [text |-> text, id |-> task_id, arg |-> arg, items |-> items]

Plain(text) == Msg(text, 0, <<>>, <<>>)

format_task_list_newest_first(ts) ==
    IF ts = <<>> THEN Plain("No tasks found.")
    ELSE Msg("TASK LIST:", 0, <<>>,
             [i \in 1..Len(ts) |->
                [id |-> ts[Len(ts) + 1 - i].id,
                 status |-> IF ts[Len(ts) + 1 - i].completed THEN "x" ELSE " ",
                 title |-> ts[Len(ts) + 1 - i].title,
                 suffix |-> IF ts[Len(ts) + 1 - i].completed THEN "  (COMPLETED)" ELSE ""]])

\* format_task_list: one entry per task, in list order
format_task_list(ts) ==
    IF ts = <<>> THEN Plain("No tasks found.")
    ELSE Msg("TASK LIST:", 0, <<>>,
             [i \in 1..Len(ts) |->
                [id |-> ts[i].id,
                 status |-> IF ts[i].completed THEN "x" ELSE " ",
                 title |-> ts[i].title,
                 suffix |-> IF ts[i].completed THEN "  (COMPLETED)" ELSE ""]])

\* format_error_message("Unknown command '<command>'", suggestions)
format_error_message(command, suggestions) ==
    Msg("ERROR: Unknown command '<command>'", 0, command, suggestions)

\* format_confirmation_prompt("delete", "task '<title>'")
format_confirmation_prompt(title) ==
    Msg("Are you sure you want to delete task '<title>'? (y/N): ", 0, title, <<>>)

HelpMessage == Plain("COMPREHENSIVE HELP - ENHANCED TODO APPLICATION")
Goodbye == Plain("Goodbye!")
ErrorLine(e) == Msg("Error: <e>", 0, <<>>, <<e>>)
IdMustBeNumber == Plain("Error: Task ID must be a number")
NotFoundLine(task_id) == Msg("Error: Task with ID <id> not found", task_id, <<>>, <<>>)

(***************************************************************************)
(* CLIInterface (app/cli/cli_interface.py)                                 *)
(* A handler yields its effect: the Task Store call it made, if any, with  *)
(* the store's result; the lines it printed; the running flag; the id it   *)
(* asks a confirmation for (0: none); the exception that escapes it.       *)
(* The handlers also append to InteractiveSession.command_history, which   *)
(* nothing in the loop reads; it is not part of the state of the loop.     *)
(***************************************************************************)
Effect(op, task_id, title, r, out, run, wait, exc) ==
    [op |-> op, id |-> task_id, title |-> title, r |-> r, out |-> out,
     running |-> run, wait |-> wait, exc |-> exc]

\* the store left alone
Untouched(self) == Result(self.tasks, self.next_id, NoError, FALSE, <<>>)

\* a handler that only prints
Prints(self, out) == Effect("none", 0, <<>>, Untouched(self), out, TRUE, 0, NoError)

\* CLIInterface.parse_command: the parser, then the arity validation
cli_parse_command(user_input) ==
    LET p == parse_command(user_input)
        v == validate_command_args(p.command, p.args)
    IN IF p.raised # NoError THEN p
       ELSE IF p.is_valid /\ ~v[1]
       THEN Parsed(p.command, p.args, FALSE, v[2], NoError)
       ELSE p

handle_add(self, args) ==
    IF Len(args) < 1
    THEN Prints(self, <<Plain("Error: Please provide a task title in quotes"),
                        Plain("Example: add \"Buy groceries\"")>>)
    ELSE LET title == join(args)
             r == add_task(self, title)
         IN IF r.raised # NoError
            THEN Effect("add", 0, title, r, <<ErrorLine(r.raised)>>, TRUE, 0, NoError)
            ELSE Effect("add", 0, title, r,
                        <<Msg("Task <id> added: <title> [PENDING]",
                              r.ret[1].id, r.ret[1].title, <<>>)>>,
                        TRUE, 0, NoError)

handle_list(self, args) ==
    Prints(self, <<format_task_list(self.tasks)>>)

handle_update(self, args) ==
    IF Len(args) < 2
    THEN Prints(self, <<Plain("Error: Please provide task ID and new title"),
                        Plain("Example: update 1 \"New task title\"")>>)
    ELSE IF int(args[1]).raised
    THEN Prints(self, <<IdMustBeNumber>>)
    ELSE LET task_id == int(args[1]).value
             new_title == join(Tail(args))
             r == update_task(self, task_id, new_title)
         IN IF r.raised # NoError
            THEN Effect("update", task_id, new_title, r, <<ErrorLine(r.raised)>>,
                        TRUE, 0, NoError)
            ELSE IF r.ret # <<>>
            THEN Effect("update", task_id, new_title, r,
                        <<Msg("Task <id> updated to: <title>", task_id,
                              r.ret[1].title, <<>>)>>,
                        TRUE, 0, NoError)
            ELSE Effect("update", task_id, new_title, r, <<NotFoundLine(task_id)>>,
                        TRUE, 0, NoError)

\* handle_delete up to its input(): the lookup, and the prompt if it found
\* the task
handle_delete(self, args) ==
    IF Len(args) < 1
    THEN Prints(self, <<Plain("Error: Please provide a task ID"),
                        Plain("Example: delete 1")>>)
    ELSE IF int(args[1]).raised
    THEN Prints(self, <<IdMustBeNumber>>)
    ELSE LET task_id == int(args[1]).value
             task == get_task_by_id(self, task_id)
             r == Result(self.tasks, self.next_id, NoError, task # <<>>, task)
         IN IF task = <<>>
            THEN Effect("get", task_id, <<>>, r, <<NotFoundLine(task_id)>>,
                        TRUE, 0, NoError)
            ELSE Effect("get", task_id, <<>>, r,
                        <<format_confirmation_prompt(task[1].title)>>,
                        TRUE, task_id, NoError)

handle_delete_confirmed_prefix(self, task_id, answer) ==
    LET confirmation == lower(strip(answer))
        r == delete_task(self, task_id)
    IN IF startswith(confirmation, <<"y">>)
       THEN Effect("delete", task_id, <<>>, r,
                   <<Msg("Task <id> deleted", task_id, <<>>, <<>>)>>,
                   TRUE, 0, NoError)
       ELSE Prints(self, <<Plain("Deletion cancelled.")>>)

\* handle_delete from the answer to its input() on
handle_delete_confirmed(self, task_id, answer) ==
    LET confirmation == lower(strip(answer))
        r == delete_task(self, task_id)
    IN IF confirmation \in {<<"y">>, <<"y", "e", "s">>}
       THEN IF r.ok
            THEN Effect("delete", task_id, <<>>, r,
                        <<Msg("Task <id> deleted", task_id, <<>>, <<>>)>>,
                        TRUE, 0, NoError)
            ELSE Effect("delete", task_id, <<>>, r, <<NotFoundLine(task_id)>>,
                        TRUE, 0, NoError)
       ELSE Prints(self, <<Plain("Deletion cancelled.")>>)

handle_complete_unchecked(self, args) ==
    IF Len(args) < 1
    THEN Prints(self, <<Plain("Error: Please provide a task ID"),
                        Plain("Example: complete 1")>>)
    ELSE LET task_id == IF int(args[1]).raised THEN 0 ELSE int(args[1]).value
             r == complete_task(self, task_id)
         IN IF r.ok
            THEN Effect("complete", task_id, <<>>, r,
                        <<Msg("Task <id> marked as complete", task_id, <<>>, <<>>)>>,
                        TRUE, 0, NoError)
            ELSE Effect("complete", task_id, <<>>, r, <<NotFoundLine(task_id)>>,
                        TRUE, 0, NoError)

handle_complete(self, args) ==
    IF Len(args) < 1
    THEN Prints(self, <<Plain("Error: Please provide a task ID"),
                        Plain("Example: complete 1")>>)
    ELSE IF int(args[1]).raised
    THEN Prints(self, <<IdMustBeNumber>>)
    ELSE LET task_id == int(args[1]).value
             r == complete_task(self, task_id)
         IN IF r.ok
            THEN Effect("complete", task_id, <<>>, r,
                        <<Msg("Task <id> marked as complete", task_id, <<>>, <<>>)>>,
                        TRUE, 0, NoError)
            ELSE Effect("complete", task_id, <<>>, r, <<NotFoundLine(task_id)>>,
                        TRUE, 0, NoError)

handle_incomplete(self, args) ==
    IF Len(args) < 1
    THEN Prints(self, <<Plain("Error: Please provide a task ID"),
                        Plain("Example: incomplete 1")>>)
    ELSE IF int(args[1]).raised
    THEN Prints(self, <<IdMustBeNumber>>)
    ELSE LET task_id == int(args[1]).value
             r == incomplete_task(self, task_id)
         IN IF r.ok
            THEN Effect("incomplete", task_id, <<>>, r,
                        <<Msg("Task <id> marked as incomplete", task_id, <<>>, <<>>)>>,
                        TRUE, 0, NoError)
            ELSE Effect("incomplete", task_id, <<>>, r, <<NotFoundLine(task_id)>>,
                        TRUE, 0, NoError)

\* CLIInterface.handle_command: the dispatch on the typed name
handle_command(self, command, args) ==
    IF command \in {add} THEN handle_add(self, args)
    ELSE IF command \in {list, ls} THEN handle_list(self, args)
    ELSE IF command \in {update} THEN handle_update(self, args)
    ELSE IF command \in {delete} THEN handle_delete(self, args)
    ELSE IF command \in {complete, done} THEN handle_complete(self, args)
    ELSE IF command \in {incomplete, undo} THEN handle_incomplete(self, args)
    ELSE IF command \in {help, qmark} THEN Prints(self, <<HelpMessage>>)
    ELSE IF command \in {exit, quit}
    THEN Effect("none", 0, <<>>, Untouched(self), <<Goodbye>>, FALSE, 0, NoError)
    ELSE Prints(self, <<format_error_message(command, get_command_suggestions(command))>>)

\* The body of the while loop of CLIInterface.run after the line has been
\* read, stripped (user_input) and parsed (p).
dispatch(self, user_input, p) ==
    IF user_input = <<>> THEN Prints(self, <<>>)
    ELSE IF p.raised # NoError
    THEN Effect("none", 0, <<>>, Untouched(self), <<>>, TRUE, 0, p.raised)
    ELSE IF ~p.is_valid /\ p.command # <<>>
    THEN Prints(self, <<format_error_message(p.command, p.suggestions)>>)
    ELSE handle_command(self, p.command, p.args)

\* One pass of the body of the while loop of CLIInterface.run for the line
\* that input("> ") returned.
run_body(self, line) ==
    dispatch(self, strip(line), cli_parse_command(strip(line)))

\* the two lines of the spec's example
LineAddQuoted == <<"a", "d", "d", " ", "\"", "B", "u", "y", " ", "m", "i", "l", "k", "\"">>
LineAddBare == <<"a", "d", "d", " ", "B", "u", "y", " ", "m", "i", "l", "k">>
BuyMilk == <<"B", "u", "y", " ", "m", "i", "l", "k">>

\* Lines typed at the "> " prompt: blank lines; every command under its
\* canonical name and its aliases with too few, the right number and too many
\* arguments; quoted and bare titles, empty and blank quoted titles; ids that
\* are present, absent and not numbers; upper case and padding; names that
\* are no command.
Lines ==
  { <<>>,
    <<" ", " ", " ">>,
    <<"a", "d", "d", " ", "\"", "B", "u", "y", " ", "m", "i", "l", "k", "\"">>,
    <<"a", "d", "d", " ", "B", "u", "y", " ", "m", "i", "l", "k">>,
    <<"a", "d", "d", " ", "B", "u", "y">>,
    <<"a", "d", "d", " ", "'", "B", "u", "y", " ", "m", "i", "l", "k", "'">>,
    <<"a", "d", "d">>,
    <<"a", "d", "d", " ", "\"", "\"">>,
    <<"a", "d", "d", " ", "\"", " ", "\"">>,
    <<"A", "D", "D", " ", "B", "u", "y">>,
    <<" ", " ", "a", "d", "d", " ", " ", "B", "u", "y", " ", " ">>,
    <<"l", "i", "s", "t">>,
    <<"l", "s">>,
    <<"l", "i", "s", "t", " ", "x">>,
    <<"l", "s", " ", "x">>,
    <<"u", "p", "d", "a", "t", "e", " ", "1", " ", "B", "u", "y">>,
    <<"u", "p", "d", "a", "t", "e", " ", "2", " ", "\"", "B", "u", "y", " ", "m", "i", "l", "k", "\"">>,
    <<"u", "p", "d", "a", "t", "e", " ", "1", " ", "B", "u", "y", " ", "m", "i", "l", "k">>,
    <<"u", "p", "d", "a", "t", "e", " ", "x", " ", "B", "u", "y">>,
    <<"u", "p", "d", "a", "t", "e", " ", "9", " ", "B", "u", "y">>,
    <<"u", "p", "d", "a", "t", "e", " ", "1", " ", "\"", " ", "\"">>,
    <<"u", "p", "d", "a", "t", "e", " ", "9", " ", "\"", " ", "\"">>,
    <<"u", "p", "d", "a", "t", "e", " ", "1">>,
    <<"u", "p", "d", "a", "t", "e">>,
    <<"d", "e", "l", "e", "t", "e", " ", "1">>,
    <<"d", "e", "l", "e", "t", "e", " ", "2">>,
    <<"d", "e", "l", "e", "t", "e", " ", "x">>,
    <<"d", "e", "l", "e", "t", "e", " ", "9">>,
    <<"d", "e", "l", "e", "t", "e">>,
    <<"d", "e", "l", "e", "t", "e", " ", "1", " ", "2">>,
    <<"c", "o", "m", "p", "l", "e", "t", "e", " ", "1">>,
    <<"d", "o", "n", "e", " ", "1">>,
    <<"c", "o", "m", "p", "l", "e", "t", "e", " ", "2">>,
    <<"d", "o", "n", "e">>,
    <<"d", "o", "n", "e", " ", "1", " ", "2">>,
    <<"c", "o", "m", "p", "l", "e", "t", "e">>,
    <<"c", "o", "m", "p", "l", "e", "t", "e", " ", "1", " ", "2">>,
    <<"c", "o", "m", "p", "l", "e", "t", "e", " ", "x">>,
    <<"d", "o", "n", "e", " ", "9">>,
    <<"d", "o", "n", "e", " ", "x">>,
    <<"i", "n", "c", "o", "m", "p", "l", "e", "t", "e", " ", "1">>,
    <<"u", "n", "d", "o", " ", "1">>,
    <<"u", "n", "d", "o", " ", "2">>,
    <<"u", "n", "d", "o">>,
    <<"u", "n", "d", "o", " ", "1", " ", "2">>,
    <<"i", "n", "c", "o", "m", "p", "l", "e", "t", "e">>,
    <<"i", "n", "c", "o", "m", "p", "l", "e", "t", "e", " ", "x">>,
    <<"u", "n", "d", "o", " ", "9">>,
    <<"u", "n", "d", "o", " ", "x", " ", "1">>,
    <<"h", "e", "l", "p">>,
    <<"?">>,
    <<"h", "e", "l", "p", " ", "x">>,
    <<"?", " ", "x">>,
    <<"e", "x", "i", "t">>,
    <<"q", "u", "i", "t">>,
    <<"e", "x", "i", "t", " ", "x">>,
    <<"q", "u", "i", "t", " ", "x">>,
    <<"f", "o", "o">>,
    <<"a", "d">>,
    <<"l", "i", "s">>,
    <<"d", "e", "l", "e", " ", "1">>,
    <<"e", "x", "i">> }

\* Lines typed at the confirmation prompt of delete.
Answers ==
  { <<"y">>,
    <<"y", "e", "s">>,
    <<"Y">>,
    <<" ", "Y", "e", "s", " ">>,
    <<>>,
    <<"n">>,
    <<"n", "o">>,
    <<"y", "y">> }

\* CLIInterface.parse_command of every line of Lines
ParsedLines == [line \in Lines |-> cli_parse_command(strip(line))]

NoInput == [kind |-> "none", text |-> <<>>]

Traceback(exc) == Msg("Traceback (most recent call last):", 0, <<>>, <<exc>>)

\* What one step of the loop leaves behind, given the effect of its handler.
Apply(e, kind, text) ==
    /\ IF e.op = "none"
       THEN /\ tasks' = e.r.tasks
            /\ next_id' = e.r.next_id
            /\ last' = NoCall
            /\ UNCHANGED <<assigned, deleted>>
       ELSE Call(e.op, e.id, e.title, e.r)
    /\ running' = e.running
    /\ pending' = e.wait
    /\ pc' = IF e.exc # NoError THEN "crashed"
             ELSE IF e.wait # 0 THEN "confirm"
             ELSE IF ~e.running THEN "stopped"
             ELSE "prompt"
    /\ output' = IF e.exc # NoError THEN <<Traceback(e.exc)>> ELSE e.out
    /\ input' = [kind |-> kind, text |-> text]
    /\ UNCHANGED <<parserVars, historyVars>>

\* run reads a line at "> " and processes it
ReadCommand ==
    /\ pc = "prompt"
    /\ running
    /\ \E line \in Lines :
         \E e \in {dispatch(Self, strip(line), ParsedLines[line])} :
            /\ e.op = "add" => next_id <= MaxId
            /\ Apply(e, "line", line)

\* handle_delete reads the answer to its confirmation prompt
ReadConfirmation ==
    /\ pc = "confirm"
    /\ \E answer \in Answers :
         \E e \in {handle_delete_confirmed(Self, pending, answer)} :
            Apply(e, "answer", answer)

\* input() raises: run prints the farewell and leaves the loop
Farewell(kind) ==
    /\ pc \in {"prompt", "confirm"}
    /\ pc' = "stopped"
    /\ output' = <<Goodbye>>
    /\ input' = [kind |-> kind, text |-> <<>>]
    /\ pending' = 0
    /\ last' = NoCall
    /\ UNCHANGED <<tasks, next_id, assigned, deleted, running>>
    /\ UNCHANGED <<parserVars, historyVars>>

EndOfInput == Farewell("eof")

KeyboardInterrupt == Farewell("interrupt")

(***************************************************************************)
(* The parser called on its own (enhanced_cli/command_parser.py)           *)
(***************************************************************************)
\* Lines are up to MaxLineLen characters of LineAlphabet, command words up to
\* MaxWordLen characters of WordAlphabet.
MaxLineLen == 5
MaxWordLen == 4

LineAlphabet == {"a", "A", " ", "\"", "'"}
WordAlphabet == {"d", "e", "l", "s", "x"}

Strings(alphabet, n) == UNION {[1..k -> alphabet] : k \in 0..n}

\* the user_input values parse_command is called with
ParserInputs == Strings(LineAlphabet, MaxLineLen) \cup Strings(WordAlphabet, MaxWordLen)

\* parse_command not called yet
NoParse == [command |-> <<>>, args |-> <<>>, is_valid |-> FALSE,
            suggestions |-> <<>>, raised |-> "not called"]

\* one call parse_command(user_input) on the line that was read
ParseCommand ==
    /\ input.kind = "line"
    /\ parsed = NoParse
    /\ parsed' = parse_command(input.text)
    /\ UNCHANGED <<storeVars, cliVars, historyVars>>

(***************************************************************************)
(* InteractiveSession.add_command_to_history                               *)
(* (enhanced_cli/interactive_session.py)                                   *)
(***************************************************************************)
\* InteractiveSession.history_limit
history_limit == 100

\* Calls are made while fewer than MaxCalls were made.
MaxCalls == 103

add_command_to_history_keep_oldest(history, command) ==
    LET appended == Append(history, command)
    IN IF Len(appended) > history_limit
       THEN SubSeq(appended, 1, history_limit)
       ELSE appended

\* add_command_to_history: append, then keep the last history_limit entries
add_command_to_history(history, command) ==
    LET appended == Append(history, command)
    IN IF Len(appended) > history_limit
       THEN SubSeq(appended, Len(appended) - history_limit + 1, Len(appended))
       ELSE appended

\* One call of add_command_to_history. The method never inspects the command
\* it stores, so the command of the n-th call is represented by n.
AddCommandToHistory ==
    /\ history_calls < MaxCalls
    /\ history_calls' = history_calls + 1
    /\ command_history' = add_command_to_history(command_history, history_calls + 1)
    /\ UNCHANGED <<storeVars, cliVars, parserVars>>

Init ==
    /\ tasks = TaskService.tasks
    /\ next_id = TaskService.next_id
    /\ last = NoCall
    /\ assigned = <<>>
    /\ deleted = {}
    /\ running = TRUE
    /\ pc = "prompt"
    /\ pending = 0
    /\ input = NoInput
    /\ output = <<>>
    /\ parsed = NoParse
    /\ command_history = <<>>
    /\ history_calls = 0

\* The Task Store driven directly through its methods.
Next ==
    \/ AddTask
    \/ GetTaskById
    \/ UpdateTask
    \/ DeleteTask
    \/ CompleteTask
    \/ IncompleteTask

Spec == Init /\ [][Next]_vars

\* The Task Store driven by the command loop.
CLINext ==
    \/ ReadCommand
    \/ ReadConfirmation
    \/ EndOfInput
    \/ KeyboardInterrupt

CLISpec == Init /\ [][CLINext]_vars

\* The parser called once on a line drawn from ParserInputs.
ParserInit ==
    /\ tasks = TaskService.tasks
    /\ next_id = TaskService.next_id
    /\ last = NoCall
    /\ assigned = <<>>
    /\ deleted = {}
    /\ running = TRUE
    /\ pc = "prompt"
    /\ pending = 0
    /\ input \in {[kind |-> "line", text |-> line] : line \in ParserInputs}
    /\ output = <<>>
    /\ parsed = NoParse
    /\ command_history = <<>>
    /\ history_calls = 0

ParserNext == ParseCommand

ParserSpec == ParserInit /\ [][ParserNext]_vars

\* The session's history driven through add_command_to_history.
HistoryNext == AddCommandToHistory

HistorySpec == Init /\ [][HistoryNext]_vars

(***************************************************************************)
(* Vocabulary of the properties, stated on the state alone                 *)
(***************************************************************************)
Ids(ts) == {ts[i].id : i \in 1..Len(ts)}

Present(ts, task_id) == task_id \in Ids(ts)

Blank(s) == \A i \in 1..Len(s) : s[i] \in Whitespace

Trimmed(s) == s # <<>> /\ s[1] \notin Whitespace /\ s[Len(s)] \notin Whitespace

\* s without its leading and trailing whitespace: the one trimmed infix of s
\* that has only whitespace around it
TrimOf(s) ==
    CHOOSE t \in {SubSeq(s, i, j) : i \in 1..Len(s), j \in 1..Len(s)} :
        /\ Trimmed(t)
        /\ \E i \in 1..Len(s) :
              /\ t = SubSeq(s, i, i + Len(t) - 1)
              /\ Blank(SubSeq(s, 1, i - 1))
              /\ Blank(SubSeq(s, i + Len(t), Len(s)))

\* ts without the tasks whose id is task_id, the others in their order
Without(ts, task_id) == SelectSeq(ts, LAMBDA t : t.id # task_id)

\* the position of the one task with this id
PosOf(ts, task_id) == CHOOSE i \in 1..Len(ts) : ts[i].id = task_id

SuccessfulAdd(c) == c.op = "add" /\ c.raised = NoError

(***************************************************************************)
(* C1: starting from the empty store, the k-th successful add returns the  *)
(* task with id k, whatever was updated, completed or deleted in between;  *)
(* no id is assigned twice.                                                *)
(***************************************************************************)
C1_SequentialIds ==
    /\ \A k \in 1..Len(assigned) : assigned[k] = k
    /\ SuccessfulAdd(last) =>
          /\ Len(last.ret) = 1
          /\ last.ret[1].id = Len(assigned)
          /\ assigned[Len(assigned)] = last.ret[1].id

\* the third add, after a deletion left fewer than two tasks in the store
C1_Witness ==
    /\ SuccessfulAdd(last)
    /\ last.ret[1].id = 3
    /\ deleted # {}
    /\ Len(tasks) <= 2

(***************************************************************************)
(* C2: next_id is greater than the id of every stored task; a successful    *)
(* add raises it by exactly one and every other call (a failed add, update, *)
(* delete, complete, incomplete, lookup) leaves it as it is.                *)
(***************************************************************************)
C2_NextIdMonotonic ==
    /\ [](\A i \in 1..Len(tasks) : tasks[i].id < next_id)
    /\ [][next_id' = IF SuccessfulAdd(last') THEN next_id + 1 ELSE next_id]_vars

\* a delete succeeded and next_id stayed where the adds had left it
C2_Witness ==
    /\ last.op = "delete" /\ last.ok
    /\ next_id = 3
    /\ Len(tasks) = 1

(***************************************************************************)
(* C3: add with an empty or whitespace-only title raises the empty-title    *)
(* ValueError and leaves tasks and next_id exactly as they were.            *)
(***************************************************************************)
C3_BlankAddRejected ==
    [][(last'.op = "add" /\ Blank(last'.title)) =>
          /\ last'.raised = EmptyTitle
          /\ last'.ret = <<>>
          /\ tasks' = tasks
          /\ next_id' = next_id]_vars

\* a whitespace-only title was refused by a store that holds tasks
C3_Witness ==
    /\ last.op = "add"
    /\ last.title # <<>> /\ Blank(last.title)
    /\ last.raised = EmptyTitle
    /\ tasks # <<>>

(***************************************************************************)
(* C4: a successful delete removes exactly the task with that id: the      *)
(* other tasks keep id, title, completed and their order, next_id is       *)
(* unchanged, and the deleted id is not found then nor at any later time.  *)
(***************************************************************************)
C4_DeleteFrame ==
    /\ [](\A d \in deleted : ~Present(tasks, d))
    /\ [][(last'.op = "delete" /\ last'.ok) =>
            /\ Present(tasks, last'.id)
            /\ tasks' = Without(tasks, last'.id)
            /\ Len(tasks') = Len(tasks) - 1
            /\ next_id' = next_id]_vars
    /\ [][(last'.op = "get" /\ last'.id \in deleted) =>
            (~last'.ok /\ last'.ret = <<>>)]_vars

\* a lookup of a deleted id, after a later add, in a store that holds tasks
C4_Witness ==
    /\ last.op = "get"
    /\ last.id \in deleted
    /\ last.ret = <<>>
    /\ Len(tasks) >= 2
    /\ \E i \in 1..Len(tasks) : \A d \in deleted : tasks[i].id > d

(***************************************************************************)
(* C5: on an existing id complete succeeds and leaves completed = TRUE,    *)
(* incomplete succeeds and leaves completed = FALSE, whatever the flag was *)
(* before; complete then incomplete leaves FALSE; nothing else changes.    *)
(***************************************************************************)
C5_CompleteIncomplete ==
    /\ [][(last'.op = "complete" /\ Present(tasks, last'.id)) =>
            /\ last'.ok /\ last'.raised = NoError
            /\ tasks' = [tasks EXCEPT ![PosOf(tasks, last'.id)].completed = TRUE]
            /\ next_id' = next_id]_vars
    /\ [][(last'.op = "incomplete" /\ Present(tasks, last'.id)) =>
            /\ last'.ok /\ last'.raised = NoError
            /\ tasks' = [tasks EXCEPT ![PosOf(tasks, last'.id)].completed = FALSE]
            /\ next_id' = next_id]_vars
    /\ [][(last.op = "complete" /\ last.ok /\ last'.op = "incomplete"
              /\ last'.id = last.id) =>
            tasks'[PosOf(tasks', last'.id)].completed = FALSE]_vars

\* complete succeeded on one of two tasks; the other one is still pending
C5_Witness ==
    /\ last.op = "complete" /\ last.ok
    /\ Len(tasks) = 2
    /\ \E i, j \in 1..2 :
          /\ tasks[i].id = last.id /\ tasks[i].completed
          /\ ~tasks[j].completed

(***************************************************************************)
(* C6 as stated: update, delete, complete and incomplete on an id that is  *)
(* not in the store signal not-found, leave the store unchanged and never  *)
(* raise the empty-title error, whatever the new title of update is.       *)
(***************************************************************************)
C6_Original ==
    [][(last'.op \in {"update", "delete", "complete", "incomplete"}
          /\ ~Present(tasks, last'.id)) =>
          /\ last'.raised = NoError
          /\ ~last'.ok /\ last'.ret = <<>>
          /\ tasks' = tasks
          /\ next_id' = next_id]_vars

(***************************************************************************)
(* C6 amended: delete, complete and incomplete on an id that is not in the *)
(* store, and update on such an id with a non-blank new title, signal      *)
(* not-found, raise nothing and leave the store unchanged; update with a   *)
(* blank new title raises the empty-title error before it looks the id up, *)
(* and leaves the store unchanged as well.                                 *)
(***************************************************************************)
C6_NotFound ==
    [][(last'.op \in {"update", "delete", "complete", "incomplete"}
          /\ ~Present(tasks, last'.id)) =>
          /\ tasks' = tasks
          /\ next_id' = next_id
          /\ ~last'.ok /\ last'.ret = <<>>
          /\ last'.raised = IF last'.op = "update" /\ Blank(last'.title)
                            THEN EmptyTitle ELSE NoError]_vars

\* update with a good title on an id that was deleted, other tasks present
C6_Witness ==
    /\ last.op = "update"
    /\ ~Blank(last.title)
    /\ ~Present(tasks, last.id)
    /\ last.id \in deleted
    /\ ~last.ok /\ last.raised = NoError
    /\ tasks # <<>>

(***************************************************************************)
(* C7: every stored task has id > 0 and a non-empty title without leading  *)
(* or trailing whitespace; add and update store the trimmed title; update  *)
(* with a blank title raises the validation error and keeps the old title. *)
(***************************************************************************)
C7_TitleInvariant ==
    /\ [](\A i \in 1..Len(tasks) : tasks[i].id > 0 /\ Trimmed(tasks[i].title))
    /\ [][(last'.op \in {"add", "update"} /\ last'.ok) =>
            /\ last'.ret # <<>>
            /\ last'.ret[1].title = TrimOf(last'.title)
            /\ last'.ret[1] = tasks'[PosOf(tasks', last'.ret[1].id)]]_vars
    /\ [][(last'.op = "update" /\ Blank(last'.title)) =>
            /\ last'.raised = EmptyTitle
            /\ tasks' = tasks]_vars

\* an update whose new title was padded with whitespace went through
C7_Witness ==
    /\ last.op = "update" /\ last.ok
    /\ ~Trimmed(last.title)
    /\ Len(last.title) > Len(last.ret[1].title)

(***************************************************************************)
(* Vocabulary of the properties of the command loop                        *)
(***************************************************************************)
Running == pc \in {"prompt", "confirm"}

\* the step read this line at the "> " prompt
ReadsLine == pc = "prompt" /\ input'.kind = "line"

\* the canonical command of an alias, from the alias table
Canonical(command) ==
    valid_commands[CHOOSE i \in 1..Len(valid_commands) :
                      \E j \in 1..Len(valid_commands[i][2]) :
                          valid_commands[i][2][j] = command][1]

\* expected argument count and usage string of a canonical command
Expected(canonical) ==
    expected_args[CHOOSE i \in 1..Len(expected_args) : expected_args[i][1] = canonical]

StoreUnchanged == tasks' = tasks /\ next_id' = next_id

(***************************************************************************)
(* C8 as stated: the lines add "Buy milk" and add Buy milk both create a   *)
(* task titled "Buy milk"; an add line with n >= 1 argument tokens creates *)
(* a task whose title is the tokens joined by single spaces.               *)
(***************************************************************************)
C8_Original ==
    /\ [][(ReadsLine /\ input'.text \in {LineAddQuoted, LineAddBare}) =>
            /\ SuccessfulAdd(last')
            /\ last'.ret[1].title = BuyMilk
            /\ tasks' = Append(tasks, last'.ret[1])]_vars
    /\ [][(ReadsLine
             /\ parse_command(input'.text).raised = NoError
             /\ parse_command(input'.text).command = add
             /\ Len(parse_command(input'.text).args) >= 1
             /\ Trimmed(join(parse_command(input'.text).args))) =>
            /\ SuccessfulAdd(last')
            /\ last'.ret[1].title = join(parse_command(input'.text).args)
            /\ tasks' = Append(tasks, last'.ret[1])]_vars

(***************************************************************************)
(* C9 as stated: a line whose argument count differs from the expected     *)
(* count of its canonical command (add 1, update 2, delete, complete and   *)
(* incomplete 1, list, help and exit 0) is answered with the error that    *)
(* carries the usage string, under the canonical name and under an alias   *)
(* (ls, done, undo, ?, quit) alike, and is not dispatched: the store is    *)
(* unchanged and the loop keeps running.                                   *)
(***************************************************************************)
C9_Original ==
    [][(ReadsLine
          /\ parse_command(input'.text).raised = NoError
          /\ parse_command(input'.text).is_valid
          /\ Len(parse_command(input'.text).args)
               # Expected(Canonical(parse_command(input'.text).command))[2]) =>
          /\ output' = <<format_error_message(
                            parse_command(input'.text).command,
                            <<Expected(Canonical(parse_command(input'.text).command))[3]>>)>>
          /\ StoreUnchanged
          /\ last' = NoCall
          /\ pc' = "prompt"
          /\ running']_vars

\* the first token of the line, lower-cased, is exit or quit
IsExitLine(text) ==
    LET matches == finditer(strip(text), 1)
    IN matches # <<>> /\ lower(matches[1].text) \in {exit, quit}

(***************************************************************************)
(* C10 as stated: the loop is running or stopped and starts running; it    *)
(* stops only on an exit or quit line or when a blocking read (the command *)
(* prompt, the delete confirmation) signals end-of-input or interrupt;     *)
(* whenever it stops it has printed "Goodbye!"; every other input leaves   *)
(* it running.                                                             *)
(***************************************************************************)
C10_Original ==
    /\ [](pc \in {"prompt", "confirm", "stopped"})
    /\ [][(Running /\ ~Running') =>
            /\ pc' = "stopped"
            /\ output' = <<Goodbye>>
            /\ \/ input'.kind \in {"eof", "interrupt"}
               \/ input'.kind = "line" /\ IsExitLine(input'.text)]_vars

(***************************************************************************)
(* Vocabulary of the error kinds of a typed line                           *)
(***************************************************************************)
\* the tokens of a line: quoted substrings without their quotes, and runs of
\* non-whitespace
Tokens(text) ==
    LET matches == finditer(strip(text), 1)
    IN [i \in 1..Len(matches) |-> matches[i].text]

TypedCommand(text) == lower(Tokens(text)[1])
TypedArgs(text) == Tail(Tokens(text))

IsAlias(command) ==
    \E i \in 1..Len(valid_commands) :
        \E j \in 1..Len(valid_commands[i][2]) : valid_commands[i][2][j] = command

\* the line names a command and has the argument count of its canonical command
WellFormed(text) ==
    /\ Tokens(text) # <<>>
    /\ IsAlias(TypedCommand(text))
    /\ Len(TypedArgs(text)) = Expected(Canonical(TypedCommand(text)))[2]

TakesId(text) ==
    Canonical(TypedCommand(text)) \in {update, delete, complete, incomplete}

UnknownCommand(text) == Tokens(text) # <<>> /\ ~IsAlias(TypedCommand(text))

ArityMismatch(text) ==
    /\ Tokens(text) # <<>>
    /\ IsAlias(TypedCommand(text))
    /\ Len(TypedArgs(text)) # Expected(Canonical(TypedCommand(text)))[2]

MalformedId(text) ==
    WellFormed(text) /\ TakesId(text) /\ int(TypedArgs(text)[1]).raised

BlankTitle(text) ==
    /\ WellFormed(text)
    /\ \/ Canonical(TypedCommand(text)) = add /\ Blank(TypedArgs(text)[1])
       \/ /\ Canonical(TypedCommand(text)) = update
          /\ ~int(TypedArgs(text)[1]).raised
          /\ Blank(TypedArgs(text)[2])

NotFound(text, ts) ==
    /\ WellFormed(text) /\ TakesId(text)
    /\ ~int(TypedArgs(text)[1]).raised
    /\ ~Present(ts, int(TypedArgs(text)[1]).value)
    /\ Canonical(TypedCommand(text)) = update => ~Blank(TypedArgs(text)[2])

ErrorTexts ==
    { "ERROR: Unknown command '<command>'",
      "Error: <e>",
      "Error: Task ID must be a number",
      "Error: Task with ID <id> not found",
      "Error: Please provide a task title in quotes",
      "Error: Please provide task ID and new title",
      "Error: Please provide a task ID" }

\* the step printed an error, left the store alone and the loop is at its prompt
Recovered ==
    /\ output' # <<>>
    /\ output'[1].text \in ErrorTexts
    /\ StoreUnchanged
    /\ pc' = "prompt"
    /\ running'

(***************************************************************************)
(* C11 as stated: a line of one of the error kinds EmptyTitle (add or      *)
(* update with a blank title, quoted or not), NotFound, MalformedId,       *)
(* ArityMismatch, UnknownCommand is recovered inside the loop: an error    *)
(* message is printed, the store is unchanged, no exception escapes and    *)
(* the loop is running and reads the next line.                            *)
(***************************************************************************)
C11_Original ==
    [][(ReadsLine
          /\ \/ BlankTitle(input'.text)
             \/ NotFound(input'.text, tasks)
             \/ MalformedId(input'.text)
             \/ ArityMismatch(input'.text)
             \/ UnknownCommand(input'.text)) =>
          Recovered]_vars

\* command and arguments typed on each line of Lines
Typed ==
    [line \in Lines |->
        IF Tokens(line) = <<>>
        THEN [command |-> <<>>, args |-> <<>>, wellformed |-> FALSE]
        ELSE [command |-> TypedCommand(line), args |-> TypedArgs(line),
              wellformed |-> WellFormed(line)]]

\* the answer, trimmed and lower-cased, is y or yes
Accepts(answer) == lower(strip(answer)) \in {<<"y">>, <<"y", "e", "s">>}

ReadsAnswer == pc = "confirm" /\ input'.kind = "answer"

(***************************************************************************)
(* C12: delete removes a task only after a confirmation. For an id in the  *)
(* store the prompt is shown and delete_task is called if and only if the  *)
(* answer, trimmed and lower-cased, is y or yes; any other answer prints   *)
(* the cancellation and leaves the store unchanged; for an id that is not  *)
(* in the store or is no number no confirmation is asked and the store is  *)
(* unchanged.                                                              *)
(***************************************************************************)
C12_DeleteConfirmed ==
    /\ [](pc = "confirm" =>
            /\ Present(tasks, pending)
            /\ output = <<format_confirmation_prompt(tasks[PosOf(tasks, pending)].title)>>)
    /\ [][(ReadsLine /\ Typed[input'.text].wellformed
             /\ Typed[input'.text].command = delete) =>
            /\ StoreUnchanged
            /\ pc' = "confirm" <=>
                 /\ ~int(Typed[input'.text].args[1]).raised
                 /\ Present(tasks, int(Typed[input'.text].args[1]).value)
            /\ pc' = "confirm" => pending' = int(Typed[input'.text].args[1]).value
            /\ pc' # "confirm" => pc' = "prompt"]_vars
    /\ [][ReadsAnswer =>
            /\ pc' = "prompt"
            /\ IF Accepts(input'.text)
               THEN /\ last'.op = "delete" /\ last'.id = pending /\ last'.ok
                    /\ tasks' = Without(tasks, pending)
                    /\ next_id' = next_id
                    /\ output' = <<Msg("Task <id> deleted", pending, <<>>, <<>>)>>
               ELSE /\ last' = NoCall
                    /\ StoreUnchanged
                    /\ output' = <<Plain("Deletion cancelled.")>>]_vars
    /\ [][Len(tasks') < Len(tasks) => (ReadsAnswer /\ Accepts(input'.text))]_vars

\* the answer " Yes " removed one of two tasks
C12_Witness ==
    /\ input.kind = "answer"
    /\ input.text = <<" ", "Y", "e", "s", " ">>
    /\ last.op = "delete" /\ last.ok
    /\ Len(tasks) = 1
    /\ pc = "prompt"

\* the lines of Lines that reach a handler with an id argument: the argument
\* count is the expected one, or the name is an alias, whose count is not
\* validated
IdLines ==
    {line \in Lines :
        /\ Typed[line].command \in {update, delete, complete, done, incomplete, undo}
        /\ Typed[line].args # <<>>
        /\ Typed[line].wellformed \/ Typed[line].command \in {done, undo}}

IdArg == [line \in IdLines |-> int(Typed[line].args[1])]

\* an update line whose new title is blank
BlankUpdate(line) == Typed[line].command = update /\ Blank(Typed[line].args[2])

PrintedMalformedId(out) ==
    Len(out) = 1 /\ out[1].text = "Error: Task ID must be a number"

PrintedNotFound(out, task_id) ==
    /\ Len(out) = 1
    /\ out[1].text = "Error: Task with ID <id> not found"
    /\ out[1].id = task_id

PrintedEmptyTitle(out) ==
    /\ Len(out) = 1
    /\ out[1].text = "Error: <e>"
    /\ out[1].items = <<"Task title cannot be empty">>

(***************************************************************************)
(* C13 as stated: for update, delete, complete, incomplete, done and undo  *)
(* an id argument that is no integer is reported as "Task ID must be a     *)
(* number", an integer id that is not in the store is reported as not      *)
(* found, and in both cases the store is unchanged.                        *)
(***************************************************************************)
C13_Original ==
    [][(ReadsLine /\ input'.text \in IdLines) =>
          /\ IdArg[input'.text].raised =>
                PrintedMalformedId(output') /\ StoreUnchanged /\ last' = NoCall
          /\ (~IdArg[input'.text].raised
                /\ ~Present(tasks, IdArg[input'.text].value)) =>
                PrintedNotFound(output', IdArg[input'.text].value) /\ StoreUnchanged]_vars

(***************************************************************************)
(* C13: as above, except that update with a blank new title and an integer *)
(* id that is not in the store reports "Task title cannot be empty" and    *)
(* not the not-found error; this outcome too differs from the malformed-id *)
(* error and leaves the store unchanged.                                   *)
(***************************************************************************)
C13_MalformedOrNotFound ==
    [][(ReadsLine /\ input'.text \in IdLines) =>
          /\ IdArg[input'.text].raised =>
                PrintedMalformedId(output') /\ StoreUnchanged /\ last' = NoCall
          /\ (~IdArg[input'.text].raised
                /\ ~Present(tasks, IdArg[input'.text].value)) =>
                /\ StoreUnchanged
                /\ ~PrintedMalformedId(output')
                /\ IF BlankUpdate(input'.text)
                   THEN PrintedEmptyTitle(output')
                   ELSE PrintedNotFound(output', IdArg[input'.text].value)]_vars

\* a line with an id that is no number was answered with the malformed-id
\* error while the store holds tasks
C13_Witness ==
    /\ input.kind = "line"
    /\ input.text \in IdLines
    /\ IdArg[input.text].raised
    /\ PrintedMalformedId(output)
    /\ tasks # <<>>
    /\ last = NoCall

\* parse_command was called on the line and returned or raised
Called == parsed # NoParse

(***************************************************************************)
(* C14 as stated: parse_command tokenizes every non-blank line without     *)
(* failing: a pair of matching quotes with any content, of any length,     *)
(* gives one token without the quotes, any other maximal run of            *)
(* non-whitespace gives one token; the first token lower-cased is the      *)
(* command and the other tokens, in order and unchanged, are the arguments.*)
(***************************************************************************)
C14_Original ==
    (Called /\ ~Blank(input.text)) =>
        /\ parsed.raised = NoError
        /\ parsed.command = lower(Tokens(input.text)[1])
        /\ parsed.args = Tail(Tokens(input.text))

\* the aliases in the order of the alias table
AliasOrder ==
    <<add, list, ls, update, delete, complete, done, incomplete, undo,
      help, qmark, exit, quit>>

InAliasTable(word) == \E i \in 1..Len(AliasOrder) : AliasOrder[i] = word

ProperPrefix(word, alias) ==
    Len(word) < Len(alias) /\ \A i \in 1..Len(word) : alias[i] = word[i]

\* the sequence without its element at position j
Dropped(seq, j) == SubSeq(seq, 1, j - 1) \o SubSeq(seq, j + 1, Len(seq))

\* the number of characters two words share, counted with multiplicity: the
\* sum over the distinct characters of the smaller of the two counts
RECURSIVE Shared(_, _)
Shared(word, alias) ==
    IF word = <<>> THEN 0
    ELSE IF \E j \in 1..Len(alias) : alias[j] = Head(word)
    THEN 1 + Shared(Tail(word),
                    Dropped(alias, CHOOSE j \in 1..Len(alias) : alias[j] = Head(word)))
    ELSE Shared(Tail(word), alias)

\* score 2 * shared / (len + len) > 0.6, in integers
ScoreAboveSixTenths(word, alias) ==
    10 * 2 * Shared(word, alias) > 6 * (Len(word) + Len(alias))

Qualifies(word, alias) ==
    ProperPrefix(word, alias) \/ ScoreAboveSixTenths(word, alias)

GenericList ==
    << [text |-> "Available commands: add, list, update, delete, complete, incomplete, help, exit",
        cmd |-> <<>>],
       [text |-> "Type 'help' for a comprehensive list of commands", cmd |-> <<>>] >>

ExpectedSuggestions(word) ==
    LET qualifying == SelectSeq(AliasOrder, LAMBDA alias : Qualifies(word, alias))
    IN IF qualifying = <<>> THEN GenericList
       ELSE [i \in 1..Len(qualifying) |->
                [text |-> "Did you mean '<cmd>'?", cmd |-> qualifying[i]]]

(***************************************************************************)
(* C15: for a command name that is not in the alias table the suggestions  *)
(* are one "Did you mean '<alias>'?" line for each alias, in the order of  *)
(* the table, that has the name as a proper prefix or whose score          *)
(* 2 * shared / (len(name) + len(alias)) is strictly greater than 0.6, and *)
(* no other line; when no alias qualifies they are the generic command     *)
(* list followed by the hint to type 'help'.                               *)
(***************************************************************************)
C15_Suggestions ==
    (Called /\ parsed.raised = NoError /\ parsed.command # <<>>
        /\ ~InAliasTable(parsed.command)) =>
        /\ ~parsed.is_valid
        /\ parsed.suggestions = ExpectedSuggestions(parsed.command)

\* the name delx shares 3 characters with delete, a score of 2 * 3 / 10, exactly
\* 0.6, and is a prefix of no alias: the generic list is returned
C15_Witness ==
    /\ Called
    /\ input.text = <<"d", "e", "l", "x">>
    /\ parsed.command = <<"d", "e", "l", "x">>
    /\ parsed.suggestions = GenericList

\* the lines of Lines that are a list command: list or ls without arguments
ListLines ==
    {line \in Lines : Typed[line].command \in {list, ls} /\ Typed[line].args = <<>>}

\* the ids returned by the adds, in the order of the adds, without the
\* deleted ones
CreationOrder == SelectSeq(assigned, LAMBDA task_id : task_id \notin deleted)

\* out is the rendering of the store ts: the no-tasks message for the empty
\* store, otherwise one entry per task, in order, with its id, its title, and
\* the marker x and the completed decoration exactly for a completed task
Renders(out, ts) ==
    /\ Len(out) = 1
    /\ out[1].text = "No tasks found." <=> ts = <<>>
    /\ ts = <<>> => out[1].items = <<>>
    /\ ts # <<>> =>
         /\ out[1].text = "TASK LIST:"
         /\ Len(out[1].items) = Len(ts)
         /\ \A i \in 1..Len(ts) :
              /\ out[1].items[i].id = ts[i].id
              /\ out[1].items[i].title = ts[i].title
              /\ out[1].items[i].status = (IF ts[i].completed THEN "x" ELSE " ")
              /\ out[1].items[i].suffix =
                    (IF ts[i].completed THEN "  (COMPLETED)" ELSE "")

(***************************************************************************)
(* C16: after any sequence of commands list renders "No tasks found." if   *)
(* and only if the store is empty, and otherwise exactly one entry per     *)
(* stored task, in insertion order, with the task's id, its title and the  *)
(* marker x (and the completed decoration) if and only if the task is      *)
(* completed; list changes nothing in the store.                           *)
(***************************************************************************)
C16_ListRenders ==
    [][(ReadsLine /\ input'.text \in ListLines) =>
          /\ Renders(output', tasks)
          /\ [i \in 1..Len(tasks) |-> tasks[i].id] = CreationOrder
          /\ StoreUnchanged
          /\ pc' = "prompt"]_vars

\* add, add, a confirmed delete 1, complete 2, list: only entry 2 is shown,
\* with the completed marker
C16_Witness ==
    /\ input.kind = "line"
    /\ input.text \in ListLines
    /\ assigned = <<1, 2>>
    /\ deleted = {1}
    /\ Len(output) = 1
    /\ output[1].text = "TASK LIST:"
    /\ Len(output[1].items) = 1
    /\ output[1].items[1].id = 2
    /\ output[1].items[1].status = "x"

\* the ids of the tasks, in the order of the list
IdsAlong(ts) == [i \in 1..Len(ts) |-> ts[i].id]

StrictlyIncreasing(seq) ==
    \A i \in 1..Len(seq) : \A j \in (i + 1)..Len(seq) : seq[i] < seq[j]

(***************************************************************************)
(* C17: in every reachable state of the Task Store the ids of the stored   *)
(* tasks are pairwise distinct and strictly increasing along the list: add *)
(* appends a task whose id is larger than all present ones, delete removes *)
(* one element without reordering, update, complete and incomplete change  *)
(* a task in place; the order of the list is the order of creation.        *)
(***************************************************************************)
C17_IdsIncreasing ==
    /\ [](/\ StrictlyIncreasing(IdsAlong(tasks))
          /\ IdsAlong(tasks) = CreationOrder)
    /\ [][SuccessfulAdd(last') =>
            /\ Len(tasks') = Len(tasks) + 1
            /\ SubSeq(tasks', 1, Len(tasks)) = tasks
            /\ \A i \in 1..Len(tasks) : tasks[i].id < tasks'[Len(tasks')].id]_vars
    /\ [][(last'.op = "delete" /\ last'.ok) =>
            /\ Len(tasks') = Len(tasks) - 1
            /\ \E k \in 1..Len(tasks) : tasks' = Dropped(tasks, k)]_vars
    /\ [][last'.op \in {"update", "complete", "incomplete", "get"} =>
            /\ IdsAlong(tasks') = IdsAlong(tasks)
            /\ \A i \in 1..Len(tasks) : tasks[i].id # last'.id => tasks'[i] = tasks[i]]_vars

\* tasks 1 and 3 are left of three, in this order, and task 3 was changed in
\* place after task 2 was deleted
C17_Witness ==
    /\ IdsAlong(tasks) = <<1, 3>>
    /\ deleted = {2}
    /\ last.op \in {"update", "complete"}
    /\ last.ok
    /\ last.id = 3

\* how many of the entries added so far are kept
Kept == IF history_calls <= history_limit THEN history_calls ELSE history_limit

(***************************************************************************)
(* C18: after any sequence of add_command_to_history calls the command     *)
(* history holds at most history_limit (100) entries, and they are the     *)
(* most recently added entries in the order in which they were added: when *)
(* the limit is exceeded the oldest entries are dropped first.             *)
(***************************************************************************)
C18_HistoryBounded ==
    /\ Len(command_history) <= history_limit
    /\ Len(command_history) = Kept
    /\ \A i \in 1..Kept : command_history[i] = history_calls - Kept + i

\* after 103 calls the history holds the entries of the calls 4 to 103
C18_Witness ==
    /\ history_calls = 103
    /\ Len(command_history) = 100
    /\ command_history[1] = 4
    /\ command_history[100] = 103

====
